---- MODULE Spec2Model ----
(***************************************************************************)
(* Model of the in-memory booking store of the Billetter ticketing         *)
(* service (billetter/src/services/InMemoryBilletterService.js).           *)
(*                                                                         *)
(* Every public method of the service is an async function without any     *)
(* await in its body, so on the single-threaded JavaScript event loop a    *)
(* call runs to completion before any other call or timer callback runs.   *)
(* Concurrent callers are therefore modelled by interleaving whole calls:  *)
(* one action per method, plus one action for a reservation timer firing.  *)
(***************************************************************************)
EXTENDS Integers, Sequences, FiniteSets, TLC

VARIABLES
    events,         \* this.events        : Map id -> {id, title, external}
    bookings,       \* this.bookings      : Map id -> {id, event_id, status}
    seats,          \* this.seats         : Map id -> {id, row, number, status,
                    \*                      price, event_id}
    bookingSeats,   \* this.bookingSeats  : Map booking id -> Set of seat ids
    eventSeats,     \* this.eventSeats    : Map event id -> array of seat ids
    nextEventId,    \* this.nextEventId
    nextBookingId,  \* this.nextBookingId
    nextSeatId,     \* this.nextSeatId
    seatTimeouts,   \* this.seatTimeouts  : Map seat id -> timeout handle
    timers,         \* timeouts scheduled with setTimeout that have neither
                    \* fired nor been cleared: set of [id, seat_id]
    nextTimeoutId,  \* identity of the next handle setTimeout returns
    result,         \* outcome of the last call: what it returned or threw
    calls,          \* number of calls the clients have made so far
    lockedSeats     \* history: booking id -> the seats the booking held when
                    \* its initiatePayment succeeded

vars == <<events, bookings, seats, bookingSeats, eventSeats, nextEventId,
          nextBookingId, nextSeatId, seatTimeouts, timers, nextTimeoutId,
          result, calls, lockedSeats>>

(***************************************************************************)
(* Bounds of the model.                                                    *)
(***************************************************************************)
\* the clients make at most this many calls in one run
MaxCalls == 6
\* at most this many events are created
MaxEvents == 2
\* at most this many bookings are created
MaxBookings == 2
\* seats in one row of the grid (100 in the source)
seatsPerRow == 1

(***************************************************************************)
(* JavaScript Map and string helpers.                                      *)
(***************************************************************************)
\* Map.prototype.set
MapSet(m, k, v) == [x \in (DOMAIN m) \cup {k} |-> IF x = k THEN v ELSE m[x]]

\* Map.prototype.delete
MapDelete(m, k) == [x \in (DOMAIN m) \ {k} |-> m[x]]

\* Map.prototype.has
MapHas(m, k) == k \in DOMAIN m

EmptyMap == [x \in {} |-> 0]

\* String.prototype.toLowerCase on one character of the titles used here
LowerChar(c) ==
    CASE c = "S" -> "s" [] c = "T" -> "t" [] c = "A" -> "a" [] c = "D" -> "d"
      [] c = "I" -> "i" [] c = "U" -> "u" [] c = "M" -> "m" [] c = "K" -> "k"
      [] c = "G" -> "g" [] OTHER -> c

\* String.prototype.toLowerCase
toLowerCase(str) == [i \in 1..Len(str) |-> LowerChar(str[i])]

\* String.prototype.includes
includes(str, sub) ==
    \E i \in 1..(Len(str) - Len(sub) + 1) :
        SubSeq(str, i, i + Len(sub) - 1) = sub

\* the events the clients create; a title is a sequence of characters
EventInputs ==
    { [title |-> <<"G", "i", "g">>, external |-> FALSE],
      [title |-> <<"S", "T", "A", "D", "I", "U", "M">>, external |-> TRUE] }

\* createEvent: isLargeEvent
isLargeEvent(title) ==
    \/ includes(toLowerCase(title), <<"s", "t", "a", "d", "i", "u", "m">>)
    \/ includes(toLowerCase(title), <<"1", "0", "0", "k">>)

\* createEvent: maxRows, scaled down from 1000 : 10 to 2 : 1
maxRows(title) == IF isLargeEvent(title) THEN 2 ELSE 1

(***************************************************************************)
(* Results of a call.                                                      *)
(***************************************************************************)
\* method op returned msg (and the id, when it returns one)
Returned(op, msg, id) == [op |-> op, threw |-> FALSE, msg |-> msg, id |-> id]

\* method op threw new Error(msg)
Thrown(op, msg) == [op |-> op, threw |-> TRUE, msg |-> msg, id |-> 0]

Init ==
    /\ events = EmptyMap
    /\ bookings = EmptyMap
    /\ seats = EmptyMap
    /\ bookingSeats = EmptyMap
    /\ eventSeats = EmptyMap
    /\ nextEventId = 1
    /\ nextBookingId = 1
    /\ nextSeatId = 1
    /\ seatTimeouts = EmptyMap
    /\ timers = {}
    /\ nextTimeoutId = 1
    /\ result = Returned("constructor", "", 0)
    /\ calls = 0
    /\ lockedSeats = EmptyMap

\* the argument values the clients try: every id in use and one unknown id
EventArgs == 1..nextEventId
BookingArgs == 1..nextBookingId
SeatArgs == 1..nextSeatId

\* a client call is counted and its outcome recorded
CountCall(res) ==
    /\ calls < MaxCalls
    /\ calls' = calls + 1
    /\ result' = res

\* a call other than a successful initiatePayment locks nothing
Call(res) == CountCall(res) /\ UNCHANGED lockedSeats

(***************************************************************************)
(* createEvent                                                             *)
(***************************************************************************)
\* createEvent that numbers the seats of every event from 1
NewSeat_NumberedPerEvent(k, eventId) ==
    [id |-> k + 1,
     row |-> (k \div seatsPerRow) + 1,
     number |-> (k % seatsPerRow) + 1,
     status |-> "FREE",
     price |-> "10.00",
     event_id |-> eventId]

\* createEvent that takes the row for the number and the number for the row
NewSeat_Transposed(k, eventId) ==
    [id |-> nextSeatId + k,
     row |-> (k % seatsPerRow) + 1,
     number |-> (k \div seatsPerRow) + 1,
     status |-> "FREE",
     price |-> "10.00",
     event_id |-> eventId]

\* the seat created k-th (k from 0) by the two nested loops of createEvent
NewSeat(k, eventId) ==
    [id |-> nextSeatId + k,
     row |-> (k \div seatsPerRow) + 1,
     number |-> (k % seatsPerRow) + 1,
     status |-> "FREE",
     price |-> "10.00",
     event_id |-> eventId]

createEvent(data) ==
    LET id == nextEventId
        title == data.title
        external == data.external
        count == maxRows(title) * seatsPerRow
        newIds == nextSeatId .. (nextSeatId + count - 1)
    IN  /\ nextEventId <= MaxEvents
        /\ nextEventId' = nextEventId + 1
        /\ events' = MapSet(events, id,
                            [id |-> id, title |-> title, external |-> external])
        /\ seats' = [s \in (DOMAIN seats) \cup newIds |->
                        IF s \in newIds THEN NewSeat(s - nextSeatId, id)
                                        ELSE seats[s]]
        /\ nextSeatId' = nextSeatId + count
        /\ eventSeats' = MapSet(eventSeats, id,
                                [k \in 1..count |-> nextSeatId + k - 1])
        /\ Call(Returned("createEvent", "id", id))
        /\ UNCHANGED <<bookings, bookingSeats, nextBookingId, seatTimeouts,
                       timers, nextTimeoutId>>

(***************************************************************************)
(* createBooking                                                           *)
(***************************************************************************)
\* createBooking that creates the booking as payment_initiated
NewBooking_Pending(id, event_id) ==
    [id |-> id, event_id |-> event_id, status |-> "payment_initiated"]

\* createBooking: const booking = { id, event_id, status: 'booked' }
NewBooking(id, event_id) ==
    [id |-> id, event_id |-> event_id, status |-> "booked"]

createBooking(event_id) ==
    IF ~MapHas(events, event_id)
    THEN /\ Call(Thrown("createBooking", "Event not found"))
         /\ UNCHANGED <<events, bookings, seats, bookingSeats, eventSeats,
                        nextEventId, nextBookingId, nextSeatId, seatTimeouts,
                        timers, nextTimeoutId>>
    ELSE LET id == nextBookingId
         IN  /\ nextBookingId <= MaxBookings
             /\ nextBookingId' = nextBookingId + 1
             /\ bookings' = MapSet(bookings, id, NewBooking(id, event_id))
             /\ bookingSeats' = MapSet(bookingSeats, id, {})
             /\ Call(Returned("createBooking", "id", id))
             /\ UNCHANGED <<events, seats, eventSeats, nextEventId, nextSeatId,
                            seatTimeouts, timers, nextTimeoutId>>

(***************************************************************************)
(* Timers.  setTimeout returns a fresh handle and schedules the callback;  *)
(* clearTimeout unschedules the callback of the handle it is given.        *)
(***************************************************************************)
\* a selectSeat that schedules no release
setTimeout_Never(ts, handle, seat_id) == ts

\* setTimeout(() => this.releaseSeatInternal(seat_id), this.SEAT_TIMEOUT)
setTimeout(ts, handle, seat_id) ==
    ts \cup {[id |-> handle, seat_id |-> seat_id]}

\* a clearTimeout that leaves the callback scheduled
clearTimeout_Ignored(ts, handle) == ts

\* clearTimeout(handle)
clearTimeout(ts, handle) == {t \in ts : t.id # handle}

\* the part of the store releaseSeatInternal reads and writes
Store == [seats |-> seats, bookingSeats |-> bookingSeats,
          seatTimeouts |-> seatTimeouts, timers |-> timers]

\* releaseSeatInternal that forgets the held-seat sets
RemoveFromBookingSeats_Skip(bs, seat_id) == bs

\* releaseSeatInternal: "Remove from booking seats" -- the seat is deleted
\* from the first set, in the Map's insertion order (ascending booking id),
\* that contains it
RemoveFromBookingSeats(bs, seat_id) ==
    LET holders == {b \in DOMAIN bs : seat_id \in bs[b]}
    IN  IF holders = {} THEN bs
        ELSE LET first == CHOOSE b \in holders : \A c \in holders : b <= c
             IN  [bs EXCEPT ![first] = @ \ {seat_id}]

\* a release that drops the map entry and leaves the timeout scheduled
ClearSeatTimeout_KeepTimer(st, seat_id) ==
    [st EXCEPT !.seatTimeouts = MapDelete(@, seat_id)]

\* releaseSeatInternal: "Clear timeout"
ClearSeatTimeout(st, seat_id) ==
    IF MapHas(st.seatTimeouts, seat_id)
    THEN [st EXCEPT !.timers = clearTimeout(@, st.seatTimeouts[seat_id]),
                    !.seatTimeouts = MapDelete(@, seat_id)]
    ELSE st

\* releaseSeatInternal that frees the seat whatever its status
releaseSeatInternal_AnyStatus(st, seat_id) ==
    IF MapHas(st.seats, seat_id)
    THEN ClearSeatTimeout(
             [st EXCEPT !.seats[seat_id].status = "FREE",
                        !.bookingSeats = RemoveFromBookingSeats(@, seat_id)],
             seat_id)
    ELSE st

\* releaseSeatInternal(seat_id), as a function of the store
releaseSeatInternal(st, seat_id) ==
    IF MapHas(st.seats, seat_id) /\ st.seats[seat_id].status = "RESERVED"
    THEN ClearSeatTimeout(
             [st EXCEPT !.seats[seat_id].status = "FREE",
                        !.bookingSeats = RemoveFromBookingSeats(@, seat_id)],
             seat_id)
    ELSE st

\* "for (const seat_id of bookingSeatsSet) this.releaseSeatInternal(seat_id)".
\* The calls for different seats touch different seats, map entries and
\* timers, so the order of the iteration does not change the outcome; the
\* seats are taken in ascending id.
\* a loop that stops after the first seat: it releases the lowest seat only
ReleaseAll_First(st, ids) ==
    IF ids = {} THEN st
    ELSE releaseSeatInternal(st, CHOOSE x \in ids : \A y \in ids : x <= y)

RECURSIVE ReleaseAll(_, _)
ReleaseAll(st, ids) ==
    IF ids = {} THEN st
    ELSE LET s == CHOOSE x \in ids : \A y \in ids : x <= y
         IN  ReleaseAll(releaseSeatInternal(st, s), ids \ {s})

\* the store after a step that leaves it as st
StoreBecomes(st) ==
    /\ seats' = st.seats
    /\ bookingSeats' = st.bookingSeats
    /\ seatTimeouts' = st.seatTimeouts
    /\ timers' = st.timers

\* what the Map lookup "this.bookingSeats.get(booking_id) || new Set()" yields
BookingSeatsOf(booking_id) ==
    IF MapHas(bookingSeats, booking_id) THEN bookingSeats[booking_id] ELSE {}

(***************************************************************************)
(* selectSeat                                                              *)
(***************************************************************************)
\* selectSeat that refuses confirmed bookings only
BookingClosed_ConfirmedOnly(booking) == booking.status = "confirmed"

\* selectSeat: "Check if booking is in a valid state for seat selection"
BookingClosed(booking) ==
    booking.status = "cancelled" \/ booking.status = "confirmed"

\* selectSeat that writes the seat without checking that it is FREE
SeatTaken_Unchecked(seat) == FALSE

\* selectSeat: the seat is taken unless its status is FREE
SeatTaken(seat) == seat.status # "FREE"

\* selectSeat that does not compare the events
OtherEvent_Unchecked(seat, booking) == FALSE

\* selectSeat: seat.event_id !== booking.event_id
OtherEvent(seat, booking) == seat.event_id # booking.event_id

\* selectSeat that checks the status of the booking before it looks the
\* seat up
selectSeat_StatusFirst(booking_id, seat_id) ==
    LET fail(msg) ==
            /\ Call(Thrown("selectSeat", msg))
            /\ UNCHANGED <<events, bookings, seats, bookingSeats, eventSeats,
                           nextEventId, nextBookingId, nextSeatId,
                           seatTimeouts, timers, nextTimeoutId>>
    IN  IF ~MapHas(bookings, booking_id) THEN fail("Booking not found")
        ELSE IF BookingClosed(bookings[booking_id])
             THEN fail("Failed to add seat to booking")
        ELSE IF ~MapHas(seats, seat_id) THEN fail("Seat not found")
        ELSE IF OtherEvent(seats[seat_id], bookings[booking_id])
             THEN fail("Seat does not belong to the booking event")
        ELSE IF SeatTaken(seats[seat_id])
             THEN fail("Failed to add seat to booking")
        ELSE /\ seats' = [seats EXCEPT ![seat_id].status = "RESERVED"]
             /\ bookingSeats' = [bookingSeats EXCEPT
                                    ![booking_id] = @ \cup {seat_id}]
             /\ timers' = setTimeout(timers, nextTimeoutId, seat_id)
             /\ nextTimeoutId' = nextTimeoutId + 1
             /\ seatTimeouts' = MapSet(seatTimeouts, seat_id, nextTimeoutId)
             /\ Call(Returned("selectSeat",
                             "Seat successfully added to booking", 0))
             /\ UNCHANGED <<events, bookings, eventSeats, nextEventId,
                            nextBookingId, nextSeatId>>

selectSeat(booking_id, seat_id) ==
    LET fail(msg) ==
            /\ Call(Thrown("selectSeat", msg))
            /\ UNCHANGED <<events, bookings, seats, bookingSeats, eventSeats,
                           nextEventId, nextBookingId, nextSeatId,
                           seatTimeouts, timers, nextTimeoutId>>
    IN  IF ~MapHas(bookings, booking_id) THEN fail("Booking not found")
        ELSE IF ~MapHas(seats, seat_id) THEN fail("Seat not found")
        ELSE IF BookingClosed(bookings[booking_id])
             THEN fail("Failed to add seat to booking")
        ELSE IF OtherEvent(seats[seat_id], bookings[booking_id])
             THEN fail("Seat does not belong to the booking event")
        ELSE IF SeatTaken(seats[seat_id])
             THEN fail("Failed to add seat to booking")
        ELSE /\ seats' = [seats EXCEPT ![seat_id].status = "RESERVED"]
             /\ bookingSeats' = [bookingSeats EXCEPT
                                    ![booking_id] = @ \cup {seat_id}]
             /\ timers' = setTimeout(timers, nextTimeoutId, seat_id)
             /\ nextTimeoutId' = nextTimeoutId + 1
             /\ seatTimeouts' = MapSet(seatTimeouts, seat_id, nextTimeoutId)
             /\ Call(Returned("selectSeat",
                             "Seat successfully added to booking", 0))
             /\ UNCHANGED <<events, bookings, eventSeats, nextEventId,
                            nextBookingId, nextSeatId>>

(***************************************************************************)
(* The callback of a reservation timer runs: the timer has fired.          *)
(***************************************************************************)
TimerFires(t) ==
    /\ t \in timers
    /\ StoreBecomes(releaseSeatInternal(
                        [Store EXCEPT !.timers = @ \ {t}], t.seat_id))
    /\ UNCHANGED <<events, bookings, eventSeats, nextEventId, nextBookingId,
                   nextSeatId, nextTimeoutId, result, calls, lockedSeats>>

(***************************************************************************)
(* releaseSeat                                                             *)
(***************************************************************************)
\* releaseSeat that refuses FREE seats only
NotReserved_FreeOnly(seat) == seat.status = "FREE"

\* releaseSeat: seat.status !== 'RESERVED'
NotReserved(seat) == seat.status # "RESERVED"

releaseSeat(seat_id) ==
    LET fail(msg) ==
            /\ Call(Thrown("releaseSeat", msg))
            /\ UNCHANGED <<events, bookings, seats, bookingSeats, eventSeats,
                           nextEventId, nextBookingId, nextSeatId,
                           seatTimeouts, timers, nextTimeoutId>>
    IN  IF ~MapHas(seats, seat_id) THEN fail("Seat not found")
        ELSE IF NotReserved(seats[seat_id])
             THEN fail("Failed to release seat")
        ELSE /\ StoreBecomes(releaseSeatInternal(Store, seat_id))
             /\ Call(Returned("releaseSeat", "Seat successfully released", 0))
             /\ UNCHANGED <<events, bookings, eventSeats, nextEventId,
                            nextBookingId, nextSeatId, nextTimeoutId>>

(***************************************************************************)
(* initiatePayment                                                         *)
(***************************************************************************)
\* initiatePayment that leaves the reservation timers running
ClearTimeouts_Skip(st, ids) == st

\* "Clear timeouts for all seats in this booking"
RECURSIVE ClearTimeouts(_, _)
ClearTimeouts(st, ids) ==
    IF ids = {} THEN st
    ELSE LET s == CHOOSE x \in ids : \A y \in ids : x <= y
         IN  ClearTimeouts(ClearSeatTimeout(st, s), ids \ {s})

\* initiatePayment that refuses closed bookings only
PaymentRefused_IfClosed(booking) == BookingClosed(booking)

\* initiatePayment: booking.status !== 'booked'
PaymentRefused(booking) == booking.status # "booked"

initiatePayment(booking_id) ==
    LET fail(msg) ==
            /\ Call(Thrown("initiatePayment", msg))
            /\ UNCHANGED <<events, bookings, seats, bookingSeats, eventSeats,
                           nextEventId, nextBookingId, nextSeatId,
                           seatTimeouts, timers, nextTimeoutId>>
    IN  IF ~MapHas(bookings, booking_id) THEN fail("Booking not found")
        ELSE IF PaymentRefused(bookings[booking_id])
             THEN fail("Invalid booking status")
        ELSE /\ bookings' = [bookings EXCEPT
                                ![booking_id].status = "payment_initiated"]
             /\ StoreBecomes(ClearTimeouts(Store, BookingSeatsOf(booking_id)))
             /\ lockedSeats' = MapSet(lockedSeats, booking_id,
                                       BookingSeatsOf(booking_id))
             /\ CountCall(Returned("initiatePayment",
                         "http://localhost:3000/payment?booking_id=",
                         booking_id))
             /\ UNCHANGED <<events, eventSeats, nextEventId, nextBookingId,
                            nextSeatId, nextTimeoutId>>

(***************************************************************************)
(* cancelBooking                                                           *)
(***************************************************************************)
\* cancelBooking that cancels confirmed bookings too
CancelRefused_Never(booking) == FALSE

\* cancelBooking: "Don't allow cancellation of confirmed bookings"
CancelRefused(booking) == booking.status = "confirmed"

\* cancelBooking that reopens a booking that is already cancelled
CancelledBooking_Reopened(booking) ==
    [booking EXCEPT !.status = IF @ = "cancelled" THEN "booked"
                               ELSE "cancelled"]

\* cancelBooking that releases the seats and leaves the status as it is
CancelledBooking_SameStatus(booking) == booking

\* cancelBooking: booking.status = 'cancelled'
CancelledBooking(booking) == [booking EXCEPT !.status = "cancelled"]

cancelBooking(booking_id) ==
    IF ~MapHas(bookings, booking_id)
    THEN /\ Call(Thrown("cancelBooking", "Booking not found"))
         /\ UNCHANGED <<events, bookings, seats, bookingSeats, eventSeats,
                        nextEventId, nextBookingId, nextSeatId, seatTimeouts,
                        timers, nextTimeoutId>>
    ELSE IF CancelRefused(bookings[booking_id])
    THEN /\ Call(Returned("cancelBooking",
                         "Booking successfully cancelled", 0))
         /\ UNCHANGED <<events, bookings, seats, bookingSeats, eventSeats,
                        nextEventId, nextBookingId, nextSeatId, seatTimeouts,
                        timers, nextTimeoutId>>
    ELSE /\ bookings' = MapSet(bookings, booking_id,
                               CancelledBooking(bookings[booking_id]))
         /\ StoreBecomes(ReleaseAll(Store, BookingSeatsOf(booking_id)))
         /\ Call(Returned("cancelBooking",
                         "Booking successfully cancelled", 0))
         /\ UNCHANGED <<events, eventSeats, nextEventId, nextBookingId,
                        nextSeatId, nextTimeoutId>>

(***************************************************************************)
(* confirmPayment                                                          *)
(***************************************************************************)
\* confirmPayment that leaves the seats as they are
MarkSold_None(ss, ids) == ss

\* confirmPayment that marks every seat of the store
MarkSold_All(ss, ids) == [s \in DOMAIN ss |-> [ss[s] EXCEPT !.status = "SOLD"]]

\* "Mark all seats as SOLD"
MarkSold(ss, ids) ==
    [s \in DOMAIN ss |->
        IF s \in ids THEN [ss[s] EXCEPT !.status = "SOLD"] ELSE ss[s]]

\* confirmPayment that also confirms a booking whose payment never started
ConfirmIgnored_UnlessOpen(booking) ==
    booking.status # "payment_initiated" /\ booking.status # "booked"

\* confirmPayment that confirms whatever the status is
ConfirmIgnored_Never(booking) == FALSE

\* confirmPayment: "Idempotent - already processed"
ConfirmIgnored(booking) == booking.status # "payment_initiated"

confirmPayment(orderId) ==
    LET booking_id == orderId
        noop == /\ Call(Returned("confirmPayment", "OK", 0))
                /\ UNCHANGED <<events, bookings, seats, bookingSeats,
                               eventSeats, nextEventId, nextBookingId,
                               nextSeatId, seatTimeouts, timers,
                               nextTimeoutId>>
    IN  IF ~MapHas(bookings, booking_id) THEN noop
        ELSE IF ConfirmIgnored(bookings[booking_id]) THEN noop
        ELSE /\ bookings' = [bookings EXCEPT
                                ![booking_id].status = "confirmed"]
             /\ seats' = MarkSold(seats, BookingSeatsOf(booking_id))
             /\ Call(Returned("confirmPayment", "OK", 0))
             /\ UNCHANGED <<events, bookingSeats, eventSeats, nextEventId,
                            nextBookingId, nextSeatId, seatTimeouts, timers,
                            nextTimeoutId>>

(***************************************************************************)
(* failPayment                                                             *)
(***************************************************************************)
\* failPayment that cancels confirmed bookings too
FailIgnored_Never(booking) == booking.status = "cancelled"

\* failPayment: "Don't process payment failure for already confirmed
\* bookings", nor for cancelled ones
FailIgnored(booking) ==
    booking.status = "confirmed" \/ booking.status = "cancelled"

\* failPayment that sends a booking whose payment failed back to booked
FailedBooking_Reopened(booking) ==
    [booking EXCEPT !.status = IF @ = "payment_initiated" THEN "booked"
                               ELSE "cancelled"]

\* failPayment: booking.status = 'cancelled'
FailedBooking(booking) == [booking EXCEPT !.status = "cancelled"]

failPayment(orderId) ==
    LET booking_id == orderId
        noop == /\ Call(Returned("failPayment", "OK", 0))
                /\ UNCHANGED <<events, bookings, seats, bookingSeats,
                               eventSeats, nextEventId, nextBookingId,
                               nextSeatId, seatTimeouts, timers,
                               nextTimeoutId>>
    IN  IF ~MapHas(bookings, booking_id) THEN noop
        ELSE IF FailIgnored(bookings[booking_id]) THEN noop
        ELSE /\ bookings' = MapSet(bookings, booking_id,
                                   FailedBooking(bookings[booking_id]))
             /\ StoreBecomes(ReleaseAll(Store, BookingSeatsOf(booking_id)))
             /\ Call(Returned("failPayment", "OK", 0))
             /\ UNCHANGED <<events, eventSeats, nextEventId, nextBookingId,
                            nextSeatId, nextTimeoutId>>

(***************************************************************************)
(* The HTTP layer: the status code PATCH /api/seats/select replies with,   *)
(* from what selectSeat returned or threw.                                 *)
(***************************************************************************)
Conflict == 419
NotFound == 404
BadRequest == 400

selectSeatReply(res) ==
    IF ~res.threw THEN 200
    ELSE IF res.msg = "Failed to add seat to booking" THEN Conflict
    ELSE IF res.msg = "Booking not found" \/ res.msg = "Seat not found"
         THEN NotFound
    ELSE BadRequest

\* the status code PATCH /api/seats/release replies with
releaseSeatReply(res) ==
    IF ~res.threw THEN 200
    ELSE IF res.msg = "Failed to release seat" THEN Conflict
    ELSE IF res.msg = "Seat not found" THEN NotFound
    ELSE 500

Next ==
    \/ \E data \in EventInputs : createEvent(data)
    \/ \E event_id \in EventArgs : createBooking(event_id)
    \/ \E booking_id \in BookingArgs, seat_id \in SeatArgs :
           selectSeat(booking_id, seat_id)
    \/ \E seat_id \in SeatArgs : releaseSeat(seat_id)
    \/ \E booking_id \in BookingArgs : initiatePayment(booking_id)
    \/ \E booking_id \in BookingArgs : cancelBooking(booking_id)
    \/ \E orderId \in BookingArgs : confirmPayment(orderId)
    \/ \E orderId \in BookingArgs : failPayment(orderId)
    \/ \E t \in timers : TimerFires(t)

Spec == Init /\ [][Next]_vars

\* the seat ids a run can create: every event may be a large one
SeatIdSpace ==
    1..(MaxEvents * maxRows(<<"s", "t", "a", "d", "i", "u", "m">>)
                  * seatsPerRow)

\* a scheduled timer fires
SomeTimerFires == \E t \in timers : TimerFires(t)

\* A timeout that stays scheduled fires once SEAT_TIMEOUT has passed: the
\* event loop runs every callback that is due and has not been cleared.  So
\* timers cannot stay scheduled for ever without any of them firing.
FairSpec == Spec /\ WF_vars(SomeTimerFires)

(***************************************************************************)
(* The read operations.  They are not part of Next: ReadSpec adds them to  *)
(* the calls the clients make.                                             *)
(***************************************************************************)
\* method op returned the array list
ReturnedList(op, list) ==
    [op |-> op, threw |-> FALSE, msg |-> "", id |-> 0, list |-> list]

\* Array.prototype.slice(startIndex, endIndex), for startIndex >= 0
slice(arr, startIndex, endIndex) ==
    SubSeq(arr, startIndex + 1,
           IF endIndex < Len(arr) THEN endIndex ELSE Len(arr))

\* Array.prototype.map, the callback given as a function on the elements
map(arr, f) == [i \in 1..Len(arr) |-> f[arr[i]]]

\* the elements of an array
elements(arr) == {arr[i] : i \in 1..Len(arr)}

\* Array.from(m.values()) of a Map whose keys were inserted as 1, 2, ...
values(m) == [i \in 1..Cardinality(DOMAIN m) |-> m[i]]

\* the largest pageSize getSeats accepts
MaxPageSize == 20

\* getSeats that accepts every positive pageSize
InvalidPagination_NoUpper(page, pageSize) == page < 1 \/ pageSize < 1

\* getSeats: page < 1 || pageSize < 1 || pageSize > 20
InvalidPagination(page, pageSize) ==
    page < 1 \/ pageSize < 1 \/ pageSize > MaxPageSize

\* getSeats that reports every seat as FREE
SeatView_AlwaysFree(seat) ==
    [id |-> seat.id, row |-> seat.row, number |-> seat.number,
     status |-> "FREE", price |-> seat.price]

\* getSeats: what a seat of the page is mapped to
SeatView(seat) ==
    [id |-> seat.id, row |-> seat.row, number |-> seat.number,
     status |-> seat.status, price |-> seat.price]

\* getSeats that starts every page one seat late
startIndex_OneLate(page, pageSize) == (page - 1) * pageSize + 1

\* getSeats: const startIndex = (page - 1) * pageSize
startIndex(page, pageSize) == (page - 1) * pageSize

\* what getSeats(query) returns or throws in the current state
getSeatsResult(query) ==
    IF ~MapHas(events, query.event_id)
    THEN Thrown("getSeats", "Event not found")
    ELSE IF InvalidPagination(query.page, query.pageSize)
    THEN Thrown("getSeats", "Invalid pagination parameters")
    ELSE LET eventSeatIds == eventSeats[query.event_id]
             start == startIndex(query.page, query.pageSize)
             paginatedSeatIds ==
                 slice(eventSeatIds, start, start + query.pageSize)
             view == [seatId \in elements(paginatedSeatIds) |->
                         SeatView(seats[seatId])]
         IN  IF start >= Len(eventSeatIds)
             THEN ReturnedList("getSeats", <<>>)
             ELSE ReturnedList("getSeats", map(paginatedSeatIds, view))

\* the seats of the largest event a run can create
MaxSeatsOfEvent ==
    maxRows(<<"s", "t", "a", "d", "i", "u", "m">>) * seatsPerRow

\* the pages and page sizes the clients ask for: the pages up to the one
\* after the last page of one-seat pages, and page 0; the sizes around
\* both ends of the valid range
Pages == 0..(MaxSeatsOfEvent + 1)
PageSizes == {0, 1, 2, MaxPageSize, MaxPageSize + 1}

SeatQueries == [event_id : EventArgs, page : Pages, pageSize : PageSizes]

getSeats(query) ==
    /\ Call(getSeatsResult(query))
    /\ UNCHANGED <<events, bookings, seats, bookingSeats, eventSeats,
                   nextEventId, nextBookingId, nextSeatId, seatTimeouts,
                   timers, nextTimeoutId>>

\* getBookings: what a booking is mapped to
BookingView(booking) ==
    [id |-> booking.id, event_id |-> booking.event_id,
     status |-> booking.status]

getBookingsResult ==
    LET all == values(bookings)
    IN  ReturnedList("getBookings",
                     map(all, [b \in elements(all) |-> BookingView(b)]))

getBookings ==
    /\ Call(getBookingsResult)
    /\ UNCHANGED <<events, bookings, seats, bookingSeats, eventSeats,
                   nextEventId, nextBookingId, nextSeatId, seatTimeouts,
                   timers, nextTimeoutId>>

\* getEvents: what an event is mapped to
EventView(event) ==
    [id |-> event.id, title |-> event.title, external |-> event.external]

\* the queries of getEvents the clients send.  An empty search term and a
\* page or pageSize of 0 are falsy, as the absent ones are.
EventQueries ==
    [query : {<<>>, <<"G", "I">>}, page : {0, 2}, pageSize : {0, 1}]

\* what getEvents(query) returns in the current state
getEventsResult(query) ==
    LET stored == values(events)
        all == map(stored, [e \in elements(stored) |-> EventView(e)])
        searchTerm == toLowerCase(query.query)
        matches(event) == includes(toLowerCase(event.title), searchTerm)
        found == IF query.query # <<>> THEN SelectSeq(all, matches) ELSE all
        page == IF query.page # 0 THEN query.page ELSE 1
        pageSize == IF query.pageSize # 0 THEN query.pageSize ELSE 10
        start == (page - 1) * pageSize
    IN  ReturnedList("getEvents",
            IF query.page # 0 \/ query.pageSize # 0
            THEN slice(found, start, start + pageSize)
            ELSE found)

getEvents(query) ==
    /\ Call(getEventsResult(query))
    /\ UNCHANGED <<events, bookings, seats, bookingSeats, eventSeats,
                   nextEventId, nextBookingId, nextSeatId, seatTimeouts,
                   timers, nextTimeoutId>>

ReadNext ==
    \/ Next
    \/ \E query \in SeatQueries : getSeats(query)
    \/ getBookings
    \/ \E query \in EventQueries : getEvents(query)

ReadSpec == Init /\ [][ReadNext]_vars

(***************************************************************************)
(* Contention: after the events and the bookings are set up, the clients   *)
(* only call selectSeat, for seats of the booking's event, and the run is  *)
(* over before a reservation timer is due.                                 *)
(***************************************************************************)
SelectNext ==
    \/ \E data \in EventInputs : createEvent(data)
    \/ \E event_id \in DOMAIN events : createBooking(event_id)
    \/ \E booking_id \in DOMAIN bookings, seat_id \in DOMAIN seats :
           /\ seats[seat_id].event_id = bookings[booking_id].event_id
           /\ selectSeat(booking_id, seat_id)

SelectSpec == Init /\ [][SelectNext]_vars

(***************************************************************************)
(* Properties.                                                             *)
(***************************************************************************)
\* the bookings whose held-seat set contains the seat
Holders(bs, seat_id) == {b \in DOMAIN bs : seat_id \in bs[b]}

\* the scheduled timers of the seat
LiveTimers(ts, seat_id) == {t \in ts : t.seat_id = seat_id}

\* everything but the record of the last call is as it was
StateUnchanged ==
    UNCHANGED <<events, bookings, seats, bookingSeats, eventSeats,
                nextEventId, nextBookingId, nextSeatId, seatTimeouts, timers>>

SelectOk == Returned("selectSeat", "Seat successfully added to booking", 0)
SelectConflict == Thrown("selectSeat", "Failed to add seat to booking")

\* the booking and the seat exist, the booking is open and of the seat's event
CanCompete(b, s) ==
    /\ MapHas(bookings, b)
    /\ MapHas(seats, s)
    /\ ~BookingClosed(bookings[b])
    /\ seats[s].event_id = bookings[b].event_id

\* C1: seat mutual exclusion.  Calls run one at a time, so N concurrent
\* selectSeat calls on a FREE seat by open bookings of its event run in some
\* order: the call that finds the seat FREE succeeds, leaves it RESERVED and
\* held by the caller alone; every call that finds it taken fails with
\* 'Failed to add seat to booking' and changes nothing, so the winner stays
\* the only holder.
C1_SeatMutualExclusion ==
    [][\A b \in BookingArgs, s \in SeatArgs :
          (CanCompete(b, s) /\ selectSeat(b, s)) =>
              IF seats[s].status = "FREE"
              THEN /\ result' = SelectOk
                   /\ seats'[s].status = "RESERVED"
                   /\ Holders(bookingSeats', s) = {b}
              ELSE /\ result' = SelectConflict
                   /\ StateUnchanged
                   /\ Cardinality(Holders(bookingSeats', s)) = 1]_vars

\* two open bookings of one event raced for a seat: one holds it, the call
\* of the other was answered with the conflict
C1_Witness ==
    \E s \in DOMAIN seats, b1, b2 \in DOMAIN bookings :
        /\ b1 # b2
        /\ CanCompete(b1, s) /\ CanCompete(b2, s)
        /\ seats[s].status = "RESERVED"
        /\ Holders(bookingSeats, s) = {b1}
        /\ \A o \in DOMAIN seats :
               (o # s /\ seats[o].event_id = seats[s].event_id)
                   => seats[o].status = "FREE"
        /\ \A b \in DOMAIN bookings : CanCompete(b, s)
        /\ result = SelectConflict

\* C2: a seat is RESERVED or SOLD exactly when it is in exactly one booking's
\* held-seat set; a FREE seat is in none; no seat is in two.
C2_SeatHeldByOne ==
    \A s \in DOMAIN seats :
        /\ seats[s].status \in {"RESERVED", "SOLD"}
               <=> Cardinality(Holders(bookingSeats, s)) = 1
        /\ seats[s].status = "FREE" => Holders(bookingSeats, s) = {}
        /\ Cardinality(Holders(bookingSeats, s)) <= 1

\* a reserved seat with its one holder next to a seat that has just been
\* released and is free again, held by nobody
C2_Witness ==
    \E s, f \in DOMAIN seats :
        /\ seats[s].status = "RESERVED"
        /\ Cardinality(Holders(bookingSeats, s)) = 1
        /\ seats[f].status = "FREE"
        /\ Holders(bookingSeats, f) = {}
        /\ result = Returned("releaseSeat", "Seat successfully released", 0)

\* C3: once a booking is confirmed or cancelled its status never changes.
C3_TerminalStatus ==
    [][\A b \in DOMAIN bookings :
          BookingClosed(bookings[b]) =>
              bookings'[b].status = bookings[b].status]_vars

\* every booking is confirmed and a cancelBooking was answered with success
C3_Witness ==
    /\ DOMAIN bookings # {}
    /\ \A b \in DOMAIN bookings : bookings[b].status = "confirmed"
    /\ result = Returned("cancelBooking", "Booking successfully cancelled", 0)
\* the seats of a booking whose payment is pending and which it held when
\* initiatePayment succeeded
PendingLocked(b) ==
    IF MapHas(lockedSeats, b) /\ bookings[b].status = "payment_initiated"
    THEN lockedSeats[b] ELSE {}

\* C4: initiatePayment locks the chosen seats.  While the booking stays
\* payment_initiated (no confirmPayment, failPayment or cancelBooking has
\* been applied to it), every seat it held when initiatePayment succeeded is
\* still RESERVED and still in its held-seat set.
C4_PaymentLocksSeats ==
    \A b \in DOMAIN bookings :
        \A s \in PendingLocked(b) :
            seats[s].status = "RESERVED" /\ s \in bookingSeats[b]

\* C5: a timer is live for a seat only if the seat is RESERVED and the
\* booking holding it is booked.
C5_TimerOnlyWhileBooked ==
    \A t \in timers :
        /\ seats[t.seat_id].status = "RESERVED"
        /\ \E b \in Holders(bookingSeats, t.seat_id) :
               bookings[b].status = "booked"

\* the seat is RESERVED and held by a booking in status booked
HeldWhileBooked(s) ==
    /\ seats[s].status = "RESERVED"
    /\ \E b \in Holders(bookingSeats, s) : bookings[b].status = "booked"

C6_OneTimerPerBookedSeat ==
    \A s \in DOMAIN seats :
        HeldWhileBooked(s) => Cardinality(LiveTimers(timers, s)) = 1

C6_CancelledOnPaymentAndRelease ==
    /\ \A b \in DOMAIN bookings :
           (initiatePayment(b) /\ ~result'.threw) =>
               \A s \in bookingSeats'[b] : LiveTimers(timers', s) = {}
    /\ \A s \in DOMAIN seats :
           (releaseSeat(s) /\ ~result'.threw) => LiveTimers(timers', s) = {}

\* C6: every RESERVED seat held by a booked booking has exactly one live
\* timer; a successful initiatePayment leaves no live timer for any seat of
\* the booking and a successful releaseSeat none for the released seat.
C6_TimerPerReservation ==
    []C6_OneTimerPerBookedSeat /\ [][C6_CancelledOnPaymentAndRelease]_vars

\* payment was initiated for a booking holding a seat whose timer ran, and
\* another booked booking holds a seat with its one timer
C6_Witness ==
    \E b1, b2 \in DOMAIN bookings, s1, s2 \in DOMAIN seats :
        /\ bookings[b1].status = "payment_initiated"
        /\ s1 \in PendingLocked(b1)
        /\ LiveTimers(timers, s1) = {}
        /\ bookings[b2].status = "booked"
        /\ s2 \in bookingSeats[b2]
        /\ Cardinality(LiveTimers(timers, s2)) = 1

\* the step cancels the reservation timer of the seat: a successful
\* releaseSeat of it, or a successful initiatePayment, an effective
\* cancelBooking or an effective failPayment of the booking holding it
CancelsTimerOf(s) ==
    \/ releaseSeat(s) /\ ~result'.threw
    \/ \E b \in Holders(bookingSeats, s) :
           \/ initiatePayment(b) /\ ~result'.threw
           \/ cancelBooking(b) /\ bookings[b].status # "confirmed"
           \/ failPayment(b) /\ bookings[b].status \notin
                                    {"confirmed", "cancelled"}

\* C7: no stale timer effect.  A step that cancels a seat's timer leaves no
\* timer of that seat scheduled, so none can fire later; a timer that fires
\* when its seat is not RESERVED changes nothing; a timer that frees a seat
\* is the one stored by the selectSeat of the current reservation, and when
\* a seat is reserved no timer of an earlier reservation is scheduled.
C7_NoStaleTimer ==
    [][/\ \A s \in DOMAIN seats :
              CancelsTimerOf(s) => LiveTimers(timers', s) = {}
       /\ \A t \in timers :
              TimerFires(t) =>
                  IF seats[t.seat_id].status = "RESERVED"
                  THEN /\ MapHas(seatTimeouts, t.seat_id)
                       /\ seatTimeouts[t.seat_id] = t.id
                  ELSE /\ timers' = timers \ {t}
                       /\ UNCHANGED <<events, bookings, seats, bookingSeats,
                                      eventSeats, seatTimeouts, result>>
       /\ \A b \in DOMAIN bookings, s \in DOMAIN seats :
              (selectSeat(b, s) /\ ~result'.threw) =>
                  /\ LiveTimers(timers, s) = {}
                  /\ LiveTimers(timers', s) =
                         {[id |-> seatTimeouts'[s], seat_id |-> s]}]_vars

\* the only seat of the only event was reserved, released and reserved again:
\* the timer of the second reservation is the only one scheduled
C7_Witness ==
    \E s \in DOMAIN seats :
        /\ DOMAIN seats = {s}
        /\ DOMAIN bookings = {1, 2}
        /\ seats[s].status = "RESERVED"
        /\ bookingSeats[2] = {s}
        /\ bookingSeats[1] = {}
        /\ ~BookingClosed(bookings[1])
        /\ nextTimeoutId = 3
        /\ timers = {[id |-> 2, seat_id |-> s]}
        /\ result = SelectOk
\* seat s is RESERVED and held by a booking in status booked
Blocked(s) ==
    /\ MapHas(seats, s)
    /\ seats[s].status = "RESERVED"
    /\ \E b \in Holders(bookingSeats, s) : bookings[b].status = "booked"

\* seat s is FREE again and in no booking's set, or no booking in status
\* booked holds it (any more); so is a seat that does not exist yet
Unblocked(s) ==
    \/ ~MapHas(seats, s)
    \/ seats[s].status = "FREE" /\ Holders(bookingSeats, s) = {}
    \/ \A b \in Holders(bookingSeats, s) : bookings[b].status # "booked"

\* C8: the reservation timeout prevents seat blocking.  With timers that
\* stay scheduled firing eventually, every state is followed by one in which
\* the seat is unblocked: in particular, whenever a seat is RESERVED and held
\* by a booked booking, eventually it is FREE again and out of that
\* booking's set, or its holder has initiated payment or was cancelled.  No
\* booking keeps a seat RESERVED for ever without initiating payment.
C8_TimeoutUnblocksSeat ==
    \A s \in SeatIdSpace : []<>Unblocked(s)

\* a timer has fired and freed the seat of a booking that is still booked
C8_Witness ==
    \E s \in DOMAIN seats, b \in DOMAIN bookings :
        /\ \A o \in DOMAIN bookings : bookings[o].status = "booked"
        /\ seats[s].event_id = bookings[b].event_id
        /\ ~Blocked(s) /\ Unblocked(s)
        /\ \A o \in DOMAIN seats :
               seats[o].status = "FREE" /\ Holders(bookingSeats, o) = {}
        /\ nextTimeoutId = 2
        /\ timers = {}
        /\ result = SelectOk
\* C9: confirmPayment on a payment_initiated booking confirms it and turns
\* each seat of its held-seat set from RESERVED to SOLD; the held-seat sets,
\* the other bookings and the other seats stay as they are.
C9_ConfirmSellsHeldSeats ==
    [][\A b \in DOMAIN bookings :
          (bookings[b].status = "payment_initiated" /\ confirmPayment(b)) =>
              /\ bookings'[b] = [bookings[b] EXCEPT !.status = "confirmed"]
              /\ \A s \in bookingSeats[b] :
                     /\ seats[s].status = "RESERVED"
                     /\ seats'[s] = [seats[s] EXCEPT !.status = "SOLD"]
              /\ bookingSeats' = bookingSeats
              /\ \A o \in DOMAIN bookings : o # b => bookings'[o] = bookings[o]
              /\ \A s \in DOMAIN seats :
                     s \notin bookingSeats[b] => seats'[s] = seats[s]
              /\ DOMAIN bookings' = DOMAIN bookings
              /\ DOMAIN seats' = DOMAIN seats]_vars

\* a confirmPayment has just sold the seat of a booking while another seat
\* of the event is not sold
C9_Witness ==
    \E b \in DOMAIN bookings, s, f \in DOMAIN seats :
        /\ bookings[b].status = "confirmed"
        /\ s \in bookingSeats[b]
        /\ seats[s].status = "SOLD"
        /\ f \notin bookingSeats[b]
        /\ seats[f].status # "SOLD"
        /\ result = Returned("confirmPayment", "OK", 0)

\* C10: failPayment on a booking that confirmPayment has confirmed returns
\* 'OK' and changes nothing: the booking stays confirmed and every seat it
\* holds stays SOLD and held, however often it is called.
C10_FailAfterConfirmIsNoOp ==
    [][\A b \in DOMAIN bookings :
          (bookings[b].status = "confirmed" /\ failPayment(b)) =>
              /\ bookings'[b].status = "confirmed"
              /\ \A s \in bookingSeats[b] :
                     /\ seats[s].status = "SOLD"
                     /\ seats'[s].status = "SOLD"
                     /\ s \in bookingSeats'[b]
              /\ StateUnchanged
              /\ result' = Returned("failPayment", "OK", 0)]_vars

\* failPayment was called on the confirmed booking, which still holds its
\* sold seat
C10_Witness ==
    \E b \in DOMAIN bookings, s \in DOMAIN seats :
        /\ DOMAIN bookings = {b}
        /\ bookings[b].status = "confirmed"
        /\ s \in bookingSeats[b]
        /\ seats[s].status = "SOLD"
        /\ result = Returned("failPayment", "OK", 0)

(***************************************************************************)
(* C11  The payment callbacks are idempotent: right after                  *)
(* confirmPayment(b), for a known or an unknown booking id b, no           *)
(* confirmPayment(b) can change the store, the counters or the timers, so  *)
(* calling it twice ends in the state that calling it once ends in; the    *)
(* same holds of failPayment(b).                                           *)
(***************************************************************************)
ConfirmAgainChanges(b) == ENABLED (confirmPayment(b) /\ ~StateUnchanged)

FailAgainChanges(b) == ENABLED (failPayment(b) /\ ~StateUnchanged)

C11_CallbacksIdempotent ==
    [][\A b \in BookingArgs :
          /\ confirmPayment(b) => ~ConfirmAgainChanges(b)'
          /\ failPayment(b) => ~FailAgainChanges(b)']_vars

\* confirmPayment has just confirmed a booking that holds a seat, and it
\* can be called for that booking again
C11_Witness ==
    /\ calls < MaxCalls
    /\ \E b \in DOMAIN bookings :
          /\ bookingSeats[b] # {}
          /\ bookings[b].status = "confirmed"
          /\ result = Returned("confirmPayment", "OK", 0)
          /\ ENABLED (confirmPayment(b) /\ StateUnchanged)

(***************************************************************************)
(* C12  The payment callbacks never throw: for a known or an unknown       *)
(* booking id and whatever the booking's status, confirmPayment and        *)
(* failPayment return 'OK'.  confirmPayment changes nothing unless the     *)
(* booking exists and is payment_initiated (a booked booking is left as    *)
(* it is); failPayment changes nothing when the booking is unknown,        *)
(* confirmed or cancelled.                                                 *)
(***************************************************************************)
C12_CallbacksNeverThrow ==
    [][\A b \in BookingArgs :
          /\ confirmPayment(b) =>
                /\ result' = Returned("confirmPayment", "OK", 0)
                /\ (MapHas(bookings, b) =>
                        bookings[b].status # "payment_initiated")
                      => StateUnchanged
          /\ failPayment(b) =>
                /\ result' = Returned("failPayment", "OK", 0)
                /\ (MapHas(bookings, b) =>
                        bookings[b].status \in {"confirmed", "cancelled"})
                      => StateUnchanged]_vars

\* confirmPayment has returned 'OK' while every booking is still booked
\* and one of them holds a RESERVED seat
C12_Witness ==
    /\ result = Returned("confirmPayment", "OK", 0)
    /\ \A b \in DOMAIN bookings : bookings[b].status = "booked"
    /\ \E b \in DOMAIN bookings :
          \E s \in bookingSeats[b] : seats[s].status = "RESERVED"

(***************************************************************************)
(* C13  failPayment on a booking that is booked or payment_initiated makes *)
(* it cancelled; every seat it held becomes FREE, leaves the held-seat set *)
(* (which ends empty) and has its reservation timer cancelled.  Afterwards *)
(* each of those seats can be selected by any other open booking of the    *)
(* same event: a selectSeat for it succeeds.                               *)
(***************************************************************************)
\* a selectSeat(b, s) called now would succeed
SelectWouldSucceed(b, s) == ENABLED (selectSeat(b, s) /\ result' = SelectOk)

\* a selectSeat(b, s) called now would fail with the conflict message
SelectWouldConflict(b, s) ==
    ENABLED (selectSeat(b, s) /\ result' = SelectConflict)

\* seat s is FREE, in no held-seat set and without timer or stored handle
Released(s) ==
    /\ seats[s].status = "FREE"
    /\ Holders(bookingSeats, s) = {}
    /\ LiveTimers(timers, s) = {}
    /\ ~MapHas(seatTimeouts, s)

C13_FailReleasesSeats ==
    [][\A b \in DOMAIN bookings :
          (bookings[b].status \in {"booked", "payment_initiated"}
              /\ failPayment(b)) =>
              /\ bookings'[b].status = "cancelled"
              /\ bookingSeats'[b] = {}
              /\ \A s \in bookingSeats[b] :
                    /\ Released(s)'
                    /\ \A other \in DOMAIN bookings \ {b} :
                          (CanCompete(other, s) /\ calls' < MaxCalls)
                              => SelectWouldSucceed(other, s)']_vars

\* failPayment has cancelled a booking, the seat is FREE again and another
\* booking of the event, still open, can select it
C13_Witness ==
    /\ result = Returned("failPayment", "OK", 0)
    /\ nextTimeoutId = 2
    /\ \E b \in DOMAIN bookings, other \in DOMAIN bookings :
        \E s \in DOMAIN seats :
          /\ bookings[b].status = "cancelled"
          /\ bookings[other].status = "booked"
          /\ bookings[other].event_id = bookings[b].event_id
          /\ seats[s].event_id = bookings[b].event_id
          /\ Released(s)
          /\ SelectWouldSucceed(other, s)

(***************************************************************************)
(* C14  cancelBooking on a booking that is booked or payment_initiated and *)
(* holds k >= 0 seats returns success and leaves the booking cancelled;    *)
(* each of the k seats is FREE and in no held-seat set, the booking's set  *)
(* is empty, and no timer or stored handle of those seats is left.         *)
(***************************************************************************)
CancelOk == Returned("cancelBooking", "Booking successfully cancelled", 0)

C14_CancelReleasesSeats ==
    [][\A b \in DOMAIN bookings :
          (bookings[b].status \in {"booked", "payment_initiated"}
              /\ cancelBooking(b)) =>
              /\ result' = CancelOk
              /\ bookings'[b].status = "cancelled"
              /\ bookingSeats'[b] = {}
              /\ \A s \in bookingSeats[b] : Released(s)']_vars

\* cancelBooking has cancelled the booking that held the two seats ever
\* reserved: both are FREE and no timer is left
C14_Witness ==
    /\ result = CancelOk
    /\ nextTimeoutId = 3
    /\ calls = 5
    /\ Cardinality(DOMAIN seats) = 2
    /\ \A b \in DOMAIN bookings : bookings[b].status = "cancelled"
    /\ \A s \in DOMAIN seats : Released(s)

(***************************************************************************)
(* C15  cancelBooking on a confirmed booking returns success and changes   *)
(* nothing: the booking stays confirmed, its seats stay SOLD and stay in   *)
(* its held-seat set.                                                      *)
(***************************************************************************)
C15_CancelConfirmedIsNoOp ==
    [][\A b \in DOMAIN bookings :
          (bookings[b].status = "confirmed" /\ cancelBooking(b)) =>
              /\ result' = CancelOk
              /\ StateUnchanged
              /\ bookings'[b].status = "confirmed"
              /\ \A s \in bookingSeats[b] :
                    /\ seats[s].status = "SOLD"
                    /\ seats'[s].status = "SOLD"
                    /\ s \in bookingSeats'[b]]_vars

\* cancelBooking has returned success, no booking is cancelled, and the
\* confirmed booking still holds its SOLD seat
C15_Witness ==
    /\ result = CancelOk
    /\ \A b \in DOMAIN bookings : bookings[b].status # "cancelled"
    /\ \E b \in DOMAIN bookings :
          /\ bookings[b].status = "confirmed"
          /\ \E s \in bookingSeats[b] : seats[s].status = "SOLD"

(***************************************************************************)
(* C16  cancelBooking is idempotent: right after a cancelBooking(b) that   *)
(* returned success, a second cancelBooking(b) returns success too and     *)
(* leaves the store, the counters and the timers as the first call left    *)
(* them.                                                                   *)
(***************************************************************************)
CancelAgainDiffers(b) ==
    ENABLED (cancelBooking(b) /\ ~(StateUnchanged /\ result' = CancelOk))

C16_CancelIdempotent ==
    [][\A b \in BookingArgs :
          (cancelBooking(b) /\ result' = CancelOk)
              => ~CancelAgainDiffers(b)']_vars

\* cancelBooking has cancelled a booking and released its seat, and it can
\* be called for that booking again
C16_Witness ==
    /\ result = CancelOk
    /\ nextTimeoutId = 2
    /\ \A s \in DOMAIN seats : Released(s)
    /\ \E b \in DOMAIN bookings :
          /\ bookings[b].status = "cancelled"
          /\ ENABLED (cancelBooking(b) /\ StateUnchanged
                          /\ result' = CancelOk)

(***************************************************************************)
(* C17  Select/release round trip.  After a successful selectSeat(b, s):   *)
(* a selectSeat of s by any other open booking of the event fails with the *)
(* conflict message; releaseSeat(s) succeeds, and it leaves s FREE, in no  *)
(* held-seat set and without timer, with the seats, the held-seat sets,    *)
(* the stored handles and the timers equal to their values before the      *)
(* selectSeat; and after that release the selectSeat of s by the other     *)
(* booking succeeds.                                                       *)
(***************************************************************************)
ReleaseOk == Returned("releaseSeat", "Seat successfully released", 0)

\* releaseSeat(s) called now could end otherwise than with success and the
\* store equal to before
ReleaseCouldMiss(s, before) ==
    ENABLED (releaseSeat(s)
                /\ ~(result' = ReleaseOk /\ Store' = before /\ Released(s)'))

\* releaseSeat(s) called now can be followed by a successful selectSeat of s
\* by each other open booking of the event
ReleaseThenSelect(b, s) ==
    ENABLED (releaseSeat(s)
                /\ \A other \in DOMAIN bookings \ {b} :
                      CanCompete(other, s) => SelectWouldSucceed(other, s)')

C17_SelectReleaseRoundTrip ==
    [][\A b \in DOMAIN bookings, s \in DOMAIN seats :
          (selectSeat(b, s) /\ result' = SelectOk) =>
              \E before \in {Store} :
                  /\ Released(s)
                  /\ \A other \in DOMAIN bookings \ {b} :
                        (CanCompete(other, s) /\ calls' < MaxCalls)
                            => SelectWouldConflict(other, s)'
                  /\ ~ReleaseCouldMiss(s, before)'
                  /\ calls' < MaxCalls - 1 => ReleaseThenSelect(b, s)']_vars

\* a seat was selected once and released, and the other booking of the
\* event, still open, can select it now
C17_Witness ==
    /\ result = ReleaseOk
    /\ nextTimeoutId = 2
    /\ calls = 5
    /\ \E b \in DOMAIN bookings, other \in DOMAIN bookings :
        \E s \in DOMAIN seats :
          /\ b # other
          /\ bookings[b].status = "booked"
          /\ CanCompete(b, s)
          /\ CanCompete(other, s)
          /\ Released(s)
          /\ SelectWouldSucceed(other, s)

(***************************************************************************)
(* C18  initiatePayment succeeds only for a booking in status booked,      *)
(* which it moves to payment_initiated.  For an unknown booking it throws  *)
(* 'Booking not found'; for a booking that is payment_initiated, confirmed *)
(* or cancelled it throws 'Invalid booking status'; a failed call changes  *)
(* nothing.  No booking ever returns to booked, so a second                *)
(* initiatePayment on the same booking always fails.                       *)
(***************************************************************************)
PaymentNotFound == Thrown("initiatePayment", "Booking not found")

PaymentInvalidState == Thrown("initiatePayment", "Invalid booking status")

\* an initiatePayment(b) called now would succeed
PaymentWouldStart(b) == ENABLED (initiatePayment(b) /\ ~result'.threw)

C18_InitiatePaymentOnlyFromBooked ==
    [][/\ \A b \in BookingArgs :
             initiatePayment(b) =>
                 IF ~MapHas(bookings, b)
                 THEN result' = PaymentNotFound /\ StateUnchanged
                 ELSE IF bookings[b].status = "booked"
                 THEN /\ ~result'.threw
                      /\ bookings'[b].status = "payment_initiated"
                      /\ ~PaymentWouldStart(b)'
                 ELSE result' = PaymentInvalidState /\ StateUnchanged
       /\ \A b \in DOMAIN bookings :
             bookings[b].status # "booked" => bookings'[b].status # "booked"
      ]_vars

\* initiatePayment has thrown 'Invalid booking status' for the only booking,
\* which is payment_initiated and still holds its RESERVED seat
C18_Witness ==
    /\ result = PaymentInvalidState
    /\ DOMAIN bookings = {1}
    /\ bookings[1].status = "payment_initiated"
    /\ \E s \in bookingSeats[1] : seats[s].status = "RESERVED"

(***************************************************************************)
(* C19  selectSeat fails with the Conflict outcome in each of three cases: *)
(* the booking is cancelled or confirmed, the seat belongs to another      *)
(* event than the booking, or the seat is not FREE.  In all three the      *)
(* caller gets the same failure, the one the HTTP layer reports as 419,    *)
(* and not the NotFound or the bad-request reply.                          *)
(***************************************************************************)
C19_SelectConflictKind ==
    [][\A b \in DOMAIN bookings, s \in DOMAIN seats :
          (/\ selectSeat(b, s)
           /\ \/ BookingClosed(bookings[b])
              \/ seats[s].event_id # bookings[b].event_id
              \/ seats[s].status # "FREE") =>
              /\ result' = SelectConflict
              /\ selectSeatReply(result') = Conflict]_vars

(***************************************************************************)
(* C20  A booking holds seats of its own event only: in every reachable    *)
(* state each seat in a booking's held-seat set has the booking's          *)
(* event_id.  A selectSeat for a seat of another event fails, does not add *)
(* the seat to the booking and does not change the seat (nor anything      *)
(* else).                                                                  *)
(***************************************************************************)
HeldSeatsOfOwnEvent ==
    \A b \in DOMAIN bookings :
        \A s \in bookingSeats[b] : seats[s].event_id = bookings[b].event_id

C20_HoldsOwnEventSeatsOnly ==
    /\ []HeldSeatsOfOwnEvent
    /\ [][\A b \in DOMAIN bookings, s \in DOMAIN seats :
             (selectSeat(b, s) /\ seats[s].event_id # bookings[b].event_id)
                 => /\ result'.threw
                    /\ s \notin bookingSeats'[b]
                    /\ seats'[s] = seats[s]
                    /\ StateUnchanged]_vars

\* a booking holds a seat of its event, and its selectSeat for a seat of the
\* other event has just been refused
C20_Witness ==
    /\ result = Thrown("selectSeat",
                       "Seat does not belong to the booking event")
    /\ DOMAIN bookings = {1}
    /\ bookingSeats[1] # {}
    /\ \E s \in DOMAIN seats :
          /\ seats[s].event_id # bookings[1].event_id
          /\ seats[s].status = "FREE"

(***************************************************************************)
(* C21  releaseSeat throws 'Seat not found' (404) for an unknown seat and  *)
(* 'Failed to release seat' (the 419 conflict) for a seat that is FREE or  *)
(* SOLD, and changes nothing in both cases.  In particular a seat held by  *)
(* a confirmed booking cannot be released, nor can a seat that was never   *)
(* selected.                                                               *)
(***************************************************************************)
ReleaseNotFound == Thrown("releaseSeat", "Seat not found")

ReleaseConflict == Thrown("releaseSeat", "Failed to release seat")

C21_ReleaseRefused ==
    [][\A s \in SeatArgs :
          releaseSeat(s) =>
              /\ ~MapHas(seats, s) =>
                    /\ result' = ReleaseNotFound
                    /\ releaseSeatReply(result') = NotFound
                    /\ StateUnchanged
              /\ (MapHas(seats, s) /\ seats[s].status \in {"FREE", "SOLD"}) =>
                    /\ result' = ReleaseConflict
                    /\ releaseSeatReply(result') = Conflict
                    /\ StateUnchanged
              /\ (\E b \in Holders(bookingSeats, s) :
                      bookings[b].status = "confirmed") =>
                    result' = ReleaseConflict /\ StateUnchanged]_vars

\* releaseSeat has been refused while every seat is SOLD and held by a
\* confirmed booking
C21_Witness ==
    /\ result = ReleaseConflict
    /\ DOMAIN seats # {}
    /\ \A s \in DOMAIN seats :
          /\ seats[s].status = "SOLD"
          /\ \E b \in Holders(bookingSeats, s) :
                bookings[b].status = "confirmed"

(***************************************************************************)
(* C22  getSeats validation.  For an unknown event getSeats throws 'Event  *)
(* not found'.  For an existing event it throws 'Invalid pagination        *)
(* parameters' whenever page < 1, pageSize < 1 or pageSize > 20 (so for    *)
(* pageSize 0 and 21).  For valid parameters it returns, and the list is   *)
(* empty when (page - 1) * pageSize is at or beyond the event's seat count *)
(* S; in particular page ceil(S / pageSize) + 1 is empty for every valid   *)
(* pageSize.                                                               *)
(***************************************************************************)
\* the seats of the event, counted in the seat store
SeatCount(event_id) ==
    Cardinality({s \in DOMAIN seats : seats[s].event_id = event_id})

\* ceil(n / d) for n >= 0 and d > 0
Ceil(n, d) == (n + d - 1) \div d

SeatsNotFound == Thrown("getSeats", "Event not found")

SeatsInvalid == Thrown("getSeats", "Invalid pagination parameters")

C22_GetSeatsValidation ==
    \A query \in SeatQueries :
        LET r == getSeatsResult(query)
            S == SeatCount(query.event_id)
            P == query.pageSize
        IN  IF query.event_id \notin DOMAIN events THEN r = SeatsNotFound
            ELSE IF query.page < 1 \/ P < 1 \/ P > 20 THEN r = SeatsInvalid
            ELSE /\ ~r.threw
                 /\ (query.page - 1) * P >= S => r.list = <<>>
                 /\ query.page = Ceil(S, P) + 1 => r.list = <<>>
                 /\ (query.page - 1) * P < S => r.list # <<>>

\* getSeats has just refused a pageSize of 21 for the only event, and its
\* page after the last is empty
C22_Witness ==
    /\ result = SeatsInvalid
    /\ DOMAIN events = {1}
    /\ SeatCount(1) = 2
    /\ getSeatsResult([event_id |-> 1, page |-> 1, pageSize |-> 21])
           = SeatsInvalid
    /\ getSeatsResult([event_id |-> 1, page |-> 1, pageSize |-> 20]).list
           # <<>>
    /\ getSeatsResult([event_id |-> 1, page |-> 3, pageSize |-> 1])
           = ReturnedList("getSeats", <<>>)

(***************************************************************************)
(* C23  The pages of getSeats partition the inventory.  For an event with  *)
(* S seats and a pageSize P in 1..20, each of the pages 1..ceil(S / P)     *)
(* holds at most P seats, all of that event; no seat id is on two pages;   *)
(* and the pages, concatenated in page order, are the event's seats in     *)
(* creation order, which is row-major.  No step, so no select, release or  *)
(* sale, changes the ids a page holds, and a getSeats repeated at once     *)
(* with the same page and pageSize returns the same result.                *)
(***************************************************************************)
\* the valid page sizes among those the clients ask for
ValidPageSizes == {P \in PageSizes : 1 <= P /\ P <= 20}

\* the list getSeats returns for the page of the event
PageOf(event_id, page, pageSize) ==
    getSeatsResult([event_id |-> event_id, page |-> page,
                    pageSize |-> pageSize]).list

\* the seat ids of a returned list
IdsOf(list) == [i \in 1..Len(list) |-> list[i].id]

\* the pages 1..n of the event, concatenated
RECURSIVE ConcatPages(_, _, _)
ConcatPages(event_id, n, pageSize) ==
    IF n = 0 THEN <<>>
    ELSE ConcatPages(event_id, n - 1, pageSize)
             \o PageOf(event_id, n, pageSize)

\* the seat ids of the event in ascending order: the seat store gives ids
\* out in creation order
RECURSIVE Ascending(_)
Ascending(ids) ==
    IF ids = {} THEN <<>>
    ELSE LET least == CHOOSE x \in ids : \A y \in ids : x <= y
         IN  <<least>> \o Ascending(ids \ {least})

CreationOrder(event_id) ==
    Ascending({s \in DOMAIN seats : seats[s].event_id = event_id})

\* the list is in row-major order
RowMajor(list) ==
    \A i \in 1..Len(list), j \in 1..Len(list) :
        i < j => \/ list[i].row < list[j].row
                 \/ list[i].row = list[j].row
                      /\ list[i].number < list[j].number

\* the ids of creation order that belong on the page
SliceOf(order, page, pageSize) ==
    SubSeq(order, (page - 1) * pageSize + 1,
           IF page * pageSize < Len(order) THEN page * pageSize
           ELSE Len(order))

PagesPartition ==
    \A e \in DOMAIN events, P \in ValidPageSizes :
        LET n == Ceil(SeatCount(e), P)
            all == ConcatPages(e, n, P)
        IN  /\ \A k \in 1..n :
                  /\ Len(PageOf(e, k, P)) <= P
                  /\ PageOf(e, k, P) # <<>>
                  /\ \A i \in 1..Len(PageOf(e, k, P)) :
                        seats[PageOf(e, k, P)[i].id].event_id = e
                  /\ IdsOf(PageOf(e, k, P))
                        = SliceOf(CreationOrder(e), k, P)
            /\ \A k \in 1..n, l \in 1..n :
                  k # l => \A i \in 1..Len(PageOf(e, k, P)),
                              j \in 1..Len(PageOf(e, l, P)) :
                              PageOf(e, k, P)[i].id # PageOf(e, l, P)[j].id
            /\ IdsOf(all) = CreationOrder(e)
            /\ all = [i \in 1..Len(all) |-> SeatView(seats[all[i].id])]
            /\ RowMajor(all)

\* a getSeats(query) called now could return something else than result
GetSeatsAgainDiffers(query) == ENABLED (getSeats(query) /\ result' # result)

\* The ids on a page are a slice of the creation order in every state, and
\* no step changes the creation order of an event's seats.
C23_PagesPartition ==
    /\ []PagesPartition
    /\ [][/\ \A e \in DOMAIN events : CreationOrder(e)' = CreationOrder(e)
          /\ (result'.op = "getSeats" /\ ~result'.threw /\ calls' # calls)
               => \A e \in DOMAIN events, P \in ValidPageSizes :
                    \A k \in Pages \ {0} :
                      LET query == [event_id |-> e, page |-> k,
                                    pageSize |-> P]
                      IN  getSeats(query)
                              => ~GetSeatsAgainDiffers(query)']_vars

\* getSeats has returned the second one-seat page of an event, and the seat
\* on it has been selected
C23_Witness ==
    /\ ~result.threw
    /\ result.op = "getSeats"
    /\ result.list # <<>>
    /\ \E e \in DOMAIN events :
          /\ result.list = PageOf(e, 2, 1)
          /\ result.list # PageOf(e, 1, 1)
    /\ result.list[1].status = "RESERVED"

(***************************************************************************)
(* C24  createBooking throws 'Event not found' for an unknown event id,    *)
(* creating no booking and consuming no booking id.  Otherwise it creates  *)
(* one booking, in status booked and with an empty held-seat set, under    *)
(* the next booking id, which it returns; the seats, the other bookings    *)
(* and their held-seat sets are as before.                                 *)
(***************************************************************************)
BookingNotCreated == Thrown("createBooking", "Event not found")

StatusEdges ==
    { <<"booked", "payment_initiated">>, <<"booked", "cancelled">>,
      <<"payment_initiated", "confirmed">>,
      <<"payment_initiated", "cancelled">> }

ConfirmedAfterInitiate ==
    \A b \in DOMAIN bookings :
        bookings[b].status = "confirmed" => MapHas(lockedSeats, b)

SeatEdgeBy(s, a, b) ==
    \/ /\ a = "FREE" /\ b = "RESERVED"
       /\ \E bk \in DOMAIN bookings : selectSeat(bk, s)
       /\ result' = SelectOk
    \/ /\ a = "RESERVED" /\ b = "FREE"
       /\ \/ releaseSeat(s)
          \/ \E t \in LiveTimers(timers, s) : TimerFires(t)
          \/ \E bk \in Holders(bookingSeats, s) :
                 cancelBooking(bk) \/ failPayment(bk)
    \/ /\ a = "RESERVED" /\ b = "SOLD"
       /\ \E bk \in Holders(bookingSeats, s) : confirmPayment(bk)

SoldIsHeld ==
    \A s \in DOMAIN seats :
        seats[s].status = "SOLD" =>
            /\ Cardinality(Holders(bookingSeats, s)) = 1
            /\ \A bk \in Holders(bookingSeats, s) :
                  bookings[bk].status = "confirmed"

C26_SeatStatusEdges ==
    /\ []SoldIsHeld
    /\ [][\A s \in DOMAIN seats :
             /\ \/ seats'[s].status = seats[s].status
                \/ SeatEdgeBy(s, seats[s].status, seats'[s].status)
             /\ seats[s].status = "SOLD" =>
                   /\ seats'[s].status = "SOLD"
                   /\ Holders(bookingSeats', s) = Holders(bookingSeats, s)
         ]_vars

\* a seat went from FREE through RESERVED to SOLD, its timer is still
\* scheduled, and another seat is FREE
C26_Witness ==
    \E s \in DOMAIN seats, free \in DOMAIN seats :
        /\ seats[s].status = "SOLD"
        /\ LiveTimers(timers, s) # {}
        /\ seats[free].status = "FREE"

(***************************************************************************)
(* C27  Racing callbacks.  confirmPayment and failPayment issued together  *)
(* for a payment_initiated booking run one after the other, in either      *)
(* order, and both return 'OK'.  The one that runs first decides: after    *)
(* confirmPayment the booking is confirmed and all its held seats are      *)
(* SOLD, after failPayment it is cancelled and all the seats it held are   *)
(* FREE; the other one, run next, changes nothing.  So the outcome is      *)
(* never a mix such as a cancelled booking with SOLD seats.                *)
(***************************************************************************)
ConfirmOk == Returned("confirmPayment", "OK", 0)

FailOk == Returned("failPayment", "OK", 0)

\* a failPayment(b) called now could change something or not return 'OK'
FailWouldCount(b) ==
    ENABLED (failPayment(b) /\ ~(StateUnchanged /\ result' = FailOk))

\* a confirmPayment(b) called now could change something or not return 'OK'
ConfirmWouldCount(b) ==
    ENABLED (confirmPayment(b) /\ ~(StateUnchanged /\ result' = ConfirmOk))

C27_RacingCallbacks ==
    [][\A b \in DOMAIN bookings :
          bookings[b].status = "payment_initiated" =>
              /\ confirmPayment(b) =>
                    /\ result' = ConfirmOk
                    /\ bookings'[b].status = "confirmed"
                    /\ bookingSeats'[b] = bookingSeats[b]
                    /\ \A s \in bookingSeats[b] : seats'[s].status = "SOLD"
                    /\ ~FailWouldCount(b)'
              /\ failPayment(b) =>
                    /\ result' = FailOk
                    /\ bookings'[b].status = "cancelled"
                    /\ bookingSeats'[b] = {}
                    /\ \A s \in bookingSeats[b] : seats'[s].status = "FREE"
                    /\ ~ConfirmWouldCount(b)']_vars

\* failPayment ran first on the payment_initiated booking, which held a
\* seat: the booking is cancelled, the seat FREE, and confirmPayment can
\* still run
C27_Witness ==
    /\ result = FailOk
    /\ calls = 5
    /\ nextTimeoutId = 2
    /\ DOMAIN bookings = {1}
    /\ bookings[1].status = "cancelled"
    /\ MapHas(lockedSeats, 1)
    /\ lockedSeats[1] # {}
    /\ \A s \in lockedSeats[1] : seats[s].status = "FREE"
    /\ ENABLED (confirmPayment(1) /\ StateUnchanged /\ result' = ConfirmOk)

(***************************************************************************)
(* C28  Data consistency under contention.  In a run whose only calls      *)
(* after the setup are selectSeat calls for seats of the booking's event,  *)
(* with no release, timer expiry, cancellation or payment: a selectSeat    *)
(* succeeds exactly when its seat is still FREE, that is when no earlier   *)
(* call targeted the seat, and makes it RESERVED for good; every other     *)
(* selectSeat gets the 419 conflict and changes nothing.  So in every      *)
(* state the RESERVED seats are as many as the selectSeat calls that       *)
(* succeeded, one for each distinct seat targeted.                         *)
(***************************************************************************)
ReservedSeats == {s \in DOMAIN seats : seats[s].status = "RESERVED"}

\* the selectSeat calls that succeeded: each took one timeout handle
SelectSuccesses == nextTimeoutId - 1

\* the selectSeat calls made: createEvent and createBooking always succeed
\* in these runs and take one id each
SelectCalls == calls - (nextEventId - 1) - (nextBookingId - 1)

ReservedCountsSuccesses ==
    /\ Cardinality(ReservedSeats) = SelectSuccesses
    /\ Cardinality(ReservedSeats) = Cardinality(timers)
    /\ SelectSuccesses <= SelectCalls
    /\ \A s \in DOMAIN seats : seats[s].status \in {"FREE", "RESERVED"}
    /\ \A s \in ReservedSeats : Cardinality(Holders(bookingSeats, s)) = 1

NumberedFromOne(m, next) ==
    /\ DOMAIN m = 1..(next - 1)
    /\ \A k \in DOMAIN m : m[k].id = k
    /\ \A k \in DOMAIN m, l \in DOMAIN m : k # l => m[k].id # m[l].id

\* the events whose seat array lists the seat
EventsOf(s) ==
    {e \in DOMAIN eventSeats :
        \E i \in 1..Len(eventSeats[e]) : eventSeats[e][i] = s}

IdsUnique ==
    /\ NumberedFromOne(events, nextEventId)
    /\ NumberedFromOne(bookings, nextBookingId)
    /\ NumberedFromOne(seats, nextSeatId)
    /\ DOMAIN eventSeats = DOMAIN events
    /\ DOMAIN bookingSeats = DOMAIN bookings
    /\ \A s \in DOMAIN seats : EventsOf(s) = {seats[s].event_id}
    /\ \A e \in DOMAIN eventSeats :
          \A i \in 1..Len(eventSeats[e]), j \in 1..Len(eventSeats[e]) :
              i < j => eventSeats[e][i] < eventSeats[e][j]

C29_IdsUniqueMonotonic ==
    /\ []IdsUnique
    /\ [][/\ \A s \in DOMAIN seats :
                /\ s \in DOMAIN seats'
                /\ seats'[s].event_id = seats[s].event_id
                /\ seats'[s].id = seats[s].id
          /\ \A e \in DOMAIN events : e \in DOMAIN events'
          /\ \A b \in DOMAIN bookings :
                /\ b \in DOMAIN bookings'
                /\ bookings'[b].event_id = bookings[b].event_id
          /\ \A e \in DOMAIN events' \ DOMAIN events :
                /\ \A old \in DOMAIN events : old < e
                /\ result' = Returned("createEvent", "id", e)
          /\ \A b \in DOMAIN bookings' \ DOMAIN bookings :
                /\ \A old \in DOMAIN bookings : old < b
                /\ result' = Returned("createBooking", "id", b)
          /\ \A s \in DOMAIN seats' \ DOMAIN seats :
                /\ \A old \in DOMAIN seats : old < s
                /\ seats'[s].event_id \in DOMAIN events' \ DOMAIN events
          /\ nextEventId' >= nextEventId
          /\ nextBookingId' >= nextBookingId
          /\ nextSeatId' >= nextSeatId]_vars

\* two events and two bookings exist, the second booking has just been
\* created, and the seats of the two events have different ids
C29_Witness ==
    /\ result = Returned("createBooking", "id", 2)
    /\ DOMAIN events = {1, 2}
    /\ DOMAIN bookings = {1, 2}
    /\ \E s \in DOMAIN seats, t \in DOMAIN seats :
          /\ seats[s].event_id = 1
          /\ seats[t].event_id = 2
          /\ seats[s].row = seats[t].row
          /\ seats[s].number = seats[t].number
          /\ seats[s].id < seats[t].id

(***************************************************************************)
(* C30  The read operations have no side effects.  getEvents, getBookings  *)
(* and getSeats, whether they return or throw, leave the events, the       *)
(* bookings, the seats, the held-seat sets, the timers and the id counters *)
(* as they were; and what they report is what the store holds: every       *)
(* booking with its status, every listed seat with its status, every       *)
(* listed event with its title.                                            *)
(***************************************************************************)
ReadOps == {"getEvents", "getBookings", "getSeats"}

\* the list reports each of its records as stored, the views of the
\* records of the Map by id, has it
ReportsStore(list, stored) ==
    \A i \in 1..Len(list) :
        /\ list[i].id \in DOMAIN stored
        /\ list[i] = stored[list[i].id]

C30_ReadsHaveNoSideEffects ==
    [][(result'.op \in ReadOps /\ calls' # calls) =>
          /\ StateUnchanged
          /\ UNCHANGED <<nextTimeoutId, lockedSeats>>
          /\ result'.op = "getBookings" =>
                /\ ~result'.threw
                /\ Len(result'.list) = Cardinality(DOMAIN bookings')
                /\ ReportsStore(result'.list,
                      [b \in DOMAIN bookings' |-> BookingView(bookings'[b])])
                /\ \A i \in 1..Len(result'.list) :
                      result'.list[i].status
                          = bookings'[result'.list[i].id].status
          /\ (result'.op = "getSeats" /\ ~result'.threw) =>
                /\ ReportsStore(result'.list,
                      [s \in DOMAIN seats' |-> SeatView(seats'[s])])
                /\ \A i \in 1..Len(result'.list) :
                      result'.list[i].status
                          = seats'[result'.list[i].id].status
          /\ result'.op = "getEvents" =>
                /\ ~result'.threw
                /\ ReportsStore(result'.list,
                      [e \in DOMAIN events' |-> EventView(events'[e])])]_vars

\* getSeats has just listed a SOLD seat of a confirmed booking and a
\* FREE one
C30_Witness ==
    /\ result.op = "getSeats"
    /\ ~result.threw
    /\ \E i \in 1..Len(result.list), j \in 1..Len(result.list) :
          /\ result.list[i].status = "SOLD"
          /\ seats[result.list[i].id].status = "SOLD"
          /\ result.list[j].status = "FREE"

(***************************************************************************)
(* C31  Failed operations leave the state unchanged.  Whenever selectSeat, *)
(* releaseSeat, initiatePayment, cancelBooking, createBooking or getSeats  *)
(* throws, every booking, every seat, every held-seat set, every stored    *)
(* handle and scheduled timer and every id counter is as it was before the *)
(* call; only these six operations throw.  In particular a selectSeat for  *)
(* a seat that is RESERVED, also when the calling booking itself holds it, *)
(* throws and leaves the timer of the seat as it is: the same handle stays *)
(* stored and scheduled and no new handle is taken.                        *)
(***************************************************************************)
ThrowingOps ==
    {"selectSeat", "releaseSeat", "initiatePayment", "cancelBooking",
     "createBooking", "getSeats"}

C31_FailedCallsChangeNothing ==
    [][/\ (result'.threw /\ calls' # calls) =>
             /\ result'.op \in ThrowingOps
             /\ StateUnchanged
             /\ UNCHANGED <<nextTimeoutId, lockedSeats>>
       /\ \A b \in DOMAIN bookings, s \in DOMAIN seats :
             (selectSeat(b, s) /\ seats[s].status = "RESERVED") =>
                 /\ result'.threw
                 /\ s \in bookingSeats[b] => result' = SelectConflict
                 /\ LiveTimers(timers', s) = LiveTimers(timers, s)
                 /\ seatTimeouts' = seatTimeouts
                 /\ nextTimeoutId' = nextTimeoutId
                 /\ StateUnchanged]_vars

\* the only booking holds the only seat, with the timer of its first
\* selectSeat still scheduled, and its second selectSeat of that seat has
\* just been refused
C31_Witness ==
    /\ result = SelectConflict
    /\ DOMAIN bookings = {1}
    /\ bookings[1].status = "booked"
    /\ \E s \in DOMAIN seats :
          /\ DOMAIN seats = {s}
          /\ bookingSeats[1] = {s}
          /\ seats[s].status = "RESERVED"
          /\ timers = {[id |-> 1, seat_id |-> s]}
          /\ seatTimeouts[s] = 1
    /\ nextTimeoutId = 2

(***************************************************************************)
(* C32  In every reachable state: every seat in the held-seat set of a     *)
(* confirmed booking is SOLD; every SOLD seat is held by a booking, and    *)
(* that booking is confirmed; every RESERVED seat is held by a booking,    *)
(* and that booking is booked or payment_initiated.                        *)
(***************************************************************************)
C32_StatusesAgree ==
    /\ \A b \in DOMAIN bookings :
          bookings[b].status = "confirmed" =>
              \A s \in bookingSeats[b] : seats[s].status = "SOLD"
    /\ \A s \in DOMAIN seats :
          /\ seats[s].status = "SOLD" =>
                /\ Holders(bookingSeats, s) # {}
                /\ \A b \in Holders(bookingSeats, s) :
                      bookings[b].status = "confirmed"
          /\ seats[s].status = "RESERVED" =>
                /\ Holders(bookingSeats, s) # {}
                /\ \A b \in Holders(bookingSeats, s) :
                      bookings[b].status \in {"booked", "payment_initiated"}

\* confirmPayment has just confirmed a booking that holds two seats, both
\* SOLD now
C32_Witness ==
    /\ result = ConfirmOk
    /\ \E b \in DOMAIN bookings :
          /\ bookings[b].status = "confirmed"
          /\ Cardinality(bookingSeats[b]) = 2
          /\ \A s \in bookingSeats[b] : seats[s].status = "SOLD"

(***************************************************************************)
(* C33  A cancelled booking holds no seat, in every reachable state, so    *)
(* neither a call nor a timer that fires ever finds a cancelled booking    *)
(* with a RESERVED seat.  The call of cancelBooking or failPayment that    *)
(* writes 'cancelled' empties the held-seat set and frees the seats in the *)
(* same step, and a selectSeat for a cancelled booking throws and adds     *)
(* nothing.                                                                *)
(***************************************************************************)
CancelledHoldsNothing ==
    \A b \in DOMAIN bookings :
        bookings[b].status = "cancelled" => bookingSeats[b] = {}

C33_CancelledHoldsNothing ==
    /\ []CancelledHoldsNothing
    /\ [][\A b \in DOMAIN bookings :
             /\ (bookings[b].status # "cancelled"
                   /\ bookings'[b].status = "cancelled") =>
                   /\ cancelBooking(b) \/ failPayment(b)
                   /\ bookingSeats'[b] = {}
                   /\ \A s \in bookingSeats[b] : Released(s)'
             /\ bookings[b].status = "cancelled" =>
                   \A s \in DOMAIN seats :
                       selectSeat(b, s) =>
                           /\ result' = SelectConflict
                           /\ bookingSeats'[b] = {}
                           /\ StateUnchanged]_vars

\* the only booking held a seat and was cancelled; the seats are FREE and
\* its selectSeat has just been refused
C33_Witness ==
    /\ result = SelectConflict
    /\ DOMAIN bookings = {1}
    /\ bookings[1].status = "cancelled"
    /\ bookingSeats[1] = {}
    /\ nextTimeoutId = 2
    /\ timers = {}
    /\ \A s \in DOMAIN seats : seats[s].status = "FREE"

(***************************************************************************)
(* C34  In every reachable state each seat has at most one scheduled timer *)
(* and a FREE seat has none.  So a successful selectSeat finds no timer of *)
(* its seat scheduled and no handle stored for it: the handle it stores    *)
(* replaces none, and every timer scheduled before stays scheduled and     *)
(* stays reachable through the handle stored for its seat.                 *)
(***************************************************************************)
OneTimerPerSeat ==
    \A s \in DOMAIN seats :
        /\ Cardinality(LiveTimers(timers, s)) <= 1
        /\ seats[s].status = "FREE" => LiveTimers(timers, s) = {}

\* every scheduled timer is the one whose handle is stored for its seat
TimersStored ==
    \A t \in timers :
        MapHas(seatTimeouts, t.seat_id) /\ seatTimeouts[t.seat_id] = t.id

C34_OneTimerPerSeat ==
    /\ []OneTimerPerSeat
    /\ []TimersStored
    /\ [][\A b \in DOMAIN bookings, s \in DOMAIN seats :
             (selectSeat(b, s) /\ result' = SelectOk) =>
                 /\ LiveTimers(timers, s) = {}
                 /\ ~MapHas(seatTimeouts, s)
                 /\ timers \subseteq timers'
                 /\ Cardinality(LiveTimers(timers', s)) = 1]_vars

\* two reservations were made and the timer of the first is gone: the seat
\* reserved last has the one scheduled timer, another seat is FREE and has
\* none
C34_Witness ==
    /\ result = SelectOk
    /\ nextTimeoutId = 3
    /\ Cardinality(timers) = 1
    /\ \E s \in DOMAIN seats, f \in DOMAIN seats :
          /\ seats[s].status = "RESERVED"
          /\ LiveTimers(timers, s) = {[id |-> 2, seat_id |-> s]}
          /\ seats[f].status = "FREE"
          /\ LiveTimers(timers, f) = {}

(***************************************************************************)
(* C35  A timer expiry racing with initiatePayment.  A booked booking      *)
(* holds a seat whose timer is scheduled, and the timer is due while       *)
(* initiatePayment of the booking is called: the two run one after the     *)
(* other.  If the timer fires first, the seat becomes FREE and leaves the  *)
(* held-seat set, the booking stays booked, and initiatePayment then       *)
(* succeeds with the seats that remain.  If initiatePayment runs first, it *)
(* succeeds and unschedules the timer, which can no longer fire, and the   *)
(* seat is RESERVED and in the booking's set.  In both orders every state  *)
(* keeps the seats and the held-seat sets in agreement.                    *)
(***************************************************************************)
\* the scheduled timer could fire now
TimerCouldFire(t) == ENABLED TimerFires(t)

\* an initiatePayment(b) called now would succeed and keep the seats the
\* booking holds now, RESERVED and without timer
PaymentWouldKeepSeats(b) ==
    ENABLED (/\ initiatePayment(b)
             /\ ~result'.threw
             /\ bookings'[b].status = "payment_initiated"
             /\ bookingSeats'[b] = bookingSeats[b]
             /\ lockedSeats'[b] = bookingSeats[b]
             /\ \A s \in bookingSeats[b] :
                   /\ seats'[s].status = "RESERVED"
                   /\ LiveTimers(timers', s) = {})

\* a seat is FREE exactly when no booking holds it, no seat is held twice,
\* and only held seats have a timer
SeatsAndSetsAgree ==
    \A s \in DOMAIN seats :
        /\ seats[s].status = "FREE" <=> Holders(bookingSeats, s) = {}
        /\ Cardinality(Holders(bookingSeats, s)) <= 1
        /\ LiveTimers(timers, s) # {} => Holders(bookingSeats, s) # {}
        /\ \A b \in Holders(bookingSeats, s) :
              seats[s].event_id = bookings[b].event_id

C35_ExpiryRacesPayment ==
    /\ []SeatsAndSetsAgree
    /\ [][\A b \in DOMAIN bookings, t \in timers :
             (bookings[b].status = "booked" /\ t.seat_id \in bookingSeats[b])
             => /\ TimerFires(t) =>
                      /\ seats'[t.seat_id].status = "FREE"
                      /\ bookingSeats'[b] = bookingSeats[b] \ {t.seat_id}
                      /\ bookings'[b].status = "booked"
                      /\ calls' < MaxCalls => PaymentWouldKeepSeats(b)'
                /\ initiatePayment(b) =>
                      /\ ~result'.threw
                      /\ bookings'[b].status = "payment_initiated"
                      /\ t \notin timers'
                      /\ ~TimerCouldFire(t)'
                      /\ seats'[t.seat_id].status = "RESERVED"
                      /\ t.seat_id \in bookingSeats'[b]]_vars

\* the booking selected two seats; the timer of one fired, then
\* initiatePayment succeeded with the other, which is RESERVED and has no
\* timer
C35_Witness ==
    /\ calls = 5
    /\ nextTimeoutId = 3
    /\ timers = {}
    /\ result.op = "initiatePayment"
    /\ ~result.threw
    /\ \E b \in DOMAIN bookings, s \in DOMAIN seats, f \in DOMAIN seats :
          /\ bookings[b].status = "payment_initiated"
          /\ lockedSeats[b] = {s}
          /\ bookingSeats[b] = {s}
          /\ seats[s].status = "RESERVED"
          /\ seats[f].status = "FREE"
          /\ f # s

(***************************************************************************)
(* C36  A timer that fires and a releaseSeat act on one seat only.  They   *)
(* change at most the status of that seat, the held-seat set of the        *)
(* booking holding it, from which they delete the seat, and the timer and  *)
(* stored handle of that seat; they change no booking, no other seat, no   *)
(* other timer, no event and no counter.  So a booked booking whose seats  *)
(* have all expired is still booked, with an empty held-seat set: it is    *)
(* not cancelled, and it can select the freed seat again.                  *)
(***************************************************************************)
\* the step changes nothing but seat s: its status, its place in the set of
\* its holder, its timers and its stored handle
OnlySeatChanged(s) ==
    /\ UNCHANGED <<events, bookings, eventSeats, nextEventId, nextBookingId,
                   nextSeatId, nextTimeoutId, lockedSeats>>
    /\ DOMAIN seats' = DOMAIN seats
    /\ \A o \in DOMAIN seats \ {s} : seats'[o] = seats[o]
    /\ MapHas(seats, s) =>
          /\ seats'[s] = [seats[s] EXCEPT !.status = seats'[s].status]
          /\ seats'[s].status \in {seats[s].status, "FREE"}
    /\ DOMAIN bookingSeats' = DOMAIN bookingSeats
    /\ \A b \in DOMAIN bookingSeats :
          bookingSeats'[b] = IF b \in Holders(bookingSeats, s)
                             THEN bookingSeats[b] \ {s}
                             ELSE bookingSeats[b]
    /\ \A o \in DOMAIN seats \ {s} :
          /\ LiveTimers(timers', o) = LiveTimers(timers, o)
          /\ MapHas(seatTimeouts', o) = MapHas(seatTimeouts, o)
          /\ MapHas(seatTimeouts, o) => seatTimeouts'[o] = seatTimeouts[o]
    /\ timers' \subseteq timers

C36_ReleaseIsSeatLevel ==
    [][/\ \A t \in timers :
             TimerFires(t) =>
                 /\ seats[t.seat_id].status = "RESERVED" =>
                       OnlySeatChanged(t.seat_id)
                 /\ seats[t.seat_id].status # "RESERVED" =>
                       /\ timers' = timers \ {t}
                       /\ UNCHANGED <<events, bookings, seats, bookingSeats>>
                 /\ \A b \in DOMAIN bookings :
                       (bookings[b].status = "booked"
                           /\ bookingSeats[b] = {t.seat_id}) =>
                           /\ bookings'[b].status = "booked"
                           /\ bookingSeats'[b] = {}
                           /\ calls' < MaxCalls =>
                                 SelectWouldSucceed(b, t.seat_id)'
       /\ \A s \in SeatArgs :
             (releaseSeat(s) /\ ~result'.threw) =>
                 /\ OnlySeatChanged(s)
                 /\ seats'[s].status = "FREE"
                 /\ \A b \in Holders(bookingSeats, s) :
                       bookings'[b].status = bookings[b].status]_vars

\* the only booking selected two seats and the timers of both have fired:
\* it is still booked, holds nothing, and can select again
C36_Witness ==
    /\ calls = 4
    /\ nextTimeoutId = 3
    /\ timers = {}
    /\ DOMAIN bookings = {1}
    /\ bookings[1].status = "booked"
    /\ bookingSeats[1] = {}
    /\ \A s \in DOMAIN seats : seats[s].status = "FREE"
    /\ \E s \in DOMAIN seats : SelectWouldSucceed(1, s)

(***************************************************************************)
(* C37  initiatePayment does not require held seats.  For a booked booking *)
(* whose held-seat set is empty it succeeds and makes the booking          *)
(* payment_initiated, changing no seat; a confirmPayment that follows      *)
(* makes the booking confirmed and returns 'OK', and no seat becomes SOLD: *)
(* the seats are as they were.                                             *)
(***************************************************************************)
\* a confirmPayment(b) called now would confirm the booking and leave every
\* seat as it is
ConfirmWouldSellNothing(b) ==
    ENABLED (/\ confirmPayment(b)
             /\ result' = ConfirmOk
             /\ bookings'[b].status = "confirmed"
             /\ seats' = seats
             /\ bookingSeats'[b] = {})

C37_PaymentWithoutSeats ==
    [][\A b \in DOMAIN bookings :
          bookingSeats[b] = {} =>
              /\ (bookings[b].status = "booked" /\ initiatePayment(b)) =>
                    /\ ~result'.threw
                    /\ result'.id = b
                    /\ bookings'[b].status = "payment_initiated"
                    /\ bookingSeats'[b] = {}
                    /\ seats' = seats
                    /\ calls' < MaxCalls => ConfirmWouldSellNothing(b)'
              /\ (bookings[b].status = "payment_initiated"
                    /\ confirmPayment(b)) =>
                    /\ result' = ConfirmOk
                    /\ bookings'[b].status = "confirmed"
                    /\ seats' = seats
                    /\ \A s \in DOMAIN seats : seats[s].status # "SOLD" =>
                          seats'[s].status # "SOLD"]_vars

\* a booking that never selected a seat has been confirmed, and every seat
\* is FREE
C37_Witness ==
    /\ result = ConfirmOk
    /\ nextTimeoutId = 1
    /\ DOMAIN seats # {}
    /\ \A s \in DOMAIN seats : seats[s].status = "FREE"
    /\ \E b \in DOMAIN bookings :
          /\ bookings[b].status = "confirmed"
          /\ bookingSeats[b] = {}
          /\ lockedSeats[b] = {}

(***************************************************************************)
(* C38  createEvent creates the whole seat inventory of the event in the   *)
(* call, and the inventory is fixed afterwards.  A new event gets          *)
(* maxRows * seatsPerRow seats, where maxRows is the larger number when    *)
(* the title contains 'stadium' or '100k' in any case (1000 against 10 in  *)
(* the source, with 100 seats per row; 2 against 1 here), all FREE, with   *)
(* consecutive seat ids in the order the two loops visit the grid: the     *)
(* k-th seat, k from 0, has row k div seatsPerRow + 1 and number           *)
(* k mod seatsPerRow + 1.  No later step adds, removes or reorders seats   *)
(* of an event or changes anything of a seat but its status, and           *)
(* createEvent changes no existing event, seat or booking.                 *)
(***************************************************************************)
\* "for (let number = 1; number <= seatsPerRow; number++)": the places of
\* one row, pushed in the order of the loop
RECURSIVE numberLoop(_, _, _)
numberLoop(row, number, eventSeatsArray) ==
    IF number > seatsPerRow THEN eventSeatsArray
    ELSE numberLoop(row, number + 1,
                    Append(eventSeatsArray, [row |-> row, number |-> number]))

\* "for (let row = 1; row <= maxRows; row++)": the places of the grid
RECURSIVE rowLoop(_, _, _)
rowLoop(row, rows, eventSeatsArray) ==
    IF row > rows THEN eventSeatsArray
    ELSE rowLoop(row + 1, rows, numberLoop(row, 1, eventSeatsArray))

\* the seats of the event are those its array lists, as many as the grid of
\* its title has places, with consecutive ids and each at the place the
\* loops gave it
InventoryOf(e) ==
    LET ids == eventSeats[e]
        rows == maxRows(events[e].title)
        grid == rowLoop(1, rows, <<>>)
    IN  /\ Len(ids) = rows * seatsPerRow
        /\ rows = IF isLargeEvent(events[e].title) THEN 2 ELSE 1
        /\ Len(grid) = Len(ids)
        /\ {s \in DOMAIN seats : seats[s].event_id = e} = elements(ids)
        /\ \A k \in 0..(Len(ids) - 1) :
              LET seat == seats[ids[k + 1]]
              IN  /\ seat.id = ids[k + 1]
                  /\ seat.id = ids[1] + k
                  /\ seat.row = grid[k + 1].row
                  /\ seat.number = grid[k + 1].number
                  /\ seat.row = (k \div seatsPerRow) + 1
                  /\ seat.number = (k % seatsPerRow) + 1
                  /\ seat.price = "10.00"
                  /\ seat.status \in {"FREE", "RESERVED", "SOLD"}

\* titles with the two marks of a large event in either case, and without
LargeTitles ==
    /\ isLargeEvent(<<"S", "t", "a", "d", "i", "u", "m">>)
    /\ isLargeEvent(<<"a", " ", "s", "t", "a", "d", "i", "u", "m", "!">>)
    /\ isLargeEvent(<<"1", "0", "0", "K">>)
    /\ isLargeEvent(<<"x", "1", "0", "0", "k">>)
    /\ ~isLargeEvent(<<"G", "i", "g">>)
    /\ ~isLargeEvent(<<"1", "0", "k">>)
    /\ ~isLargeEvent(<<"s", "t", "a", "d", "i", "u">>)

InventoryAsCreated == LargeTitles /\ \A e \in DOMAIN events : InventoryOf(e)

SelectBookingNotFound == Thrown("selectSeat", "Booking not found")

SelectSeatNotFound == Thrown("selectSeat", "Seat not found")

SelectOtherEvent ==
    Thrown("selectSeat", "Seat does not belong to the booking event")

C39_SelectPrecedence ==
    [][\A b \in BookingArgs, s \in SeatArgs :
          selectSeat(b, s) =>
              IF b \notin DOMAIN bookings
              THEN /\ result' = SelectBookingNotFound
                   /\ selectSeatReply(result') = NotFound
              ELSE IF s \notin DOMAIN seats
              THEN /\ result' = SelectSeatNotFound
                   /\ selectSeatReply(result') = NotFound
              ELSE IF bookings[b].status \in {"cancelled", "confirmed"}
              THEN result' = SelectConflict
              ELSE IF seats[s].event_id # bookings[b].event_id
              THEN result' = SelectOtherEvent
              ELSE IF seats[s].status # "FREE"
              THEN result' = SelectConflict
              ELSE result' = SelectOk]_vars

\* every booking is cancelled, and a selectSeat of one of them for an
\* unknown seat has just got 'Seat not found'
C39_Witness ==
    /\ result = SelectSeatNotFound
    /\ DOMAIN bookings # {}
    /\ \A b \in DOMAIN bookings : bookings[b].status = "cancelled"

====
